---- MODULE Spec2Model ----
(***************************************************************************)
(* Model of csv_to_pg.py: the identifier sanitizers, the file selection    *)
(* (get_csv_files) and the load loop of main / load_csv_to_postgres.       *)
(*                                                                         *)
(* A Python str is a sequence of one-character strings, so that slicing,   *)
(* searching and comparison by code point are computed as Python does.     *)
(* An optional value is a sequence of at most one element: None is <<>>    *)
(* and a present value v is <<v>>, so that the empty list <<<<>>>> and None  *)
(* stay distinct.                                                          *)
(***************************************************************************)
EXTENDS Integers, Sequences, FiniteSets, TLC

VARIABLES
    \* --- environment of one run of main() ---
    fs,          \* the file system: node -> "none", "file", "dir", "dangling"
    args_csv,    \* args.csv: None, or Some(the possibly empty list after --csv)
    db,          \* the target schema: table name -> table
    db0,         \* the target schema as it was when the run started
    \* --- the run of main() ---
    pc,          \* "start", "select", "loop", "done", "aborted" ("off": no run)
    csv_names,   \* resolved explicit list: None or Some(list)
    csv_files,   \* list returned by get_csv_files
    i,           \* position of the for loop in csv_files (1-based)
    attempted,   \* paths load_csv_to_postgres was called with, in order
    loaded,      \* paths whose load completed, in order
    failedAt,    \* position of the file whose load failed, 0 if none
    err,         \* the error that ended the run, "" if none
    exit,        \* process exit status, -1 while running
    \* --- the sanitizers applied to one raw string ---
    spc,         \* "in", "t1", "t2", "done" ("off": not exercised)
    raw,         \* the input string
    tbl,         \* sanitize_table_name(raw)
    tbl2,        \* sanitize_table_name(tbl)
    col          \* the column name made from raw

runvars == <<fs, args_csv, db, db0, pc, csv_names,
             csv_files, i, attempted, loaded, failedAt, err, exit>>
sanvars == <<spc, raw, tbl, tbl2, col>>
vars == <<fs, args_csv, db, db0, pc, csv_names,
          csv_files, i, attempted, loaded, failedAt, err, exit,
          spc, raw, tbl, tbl2, col>>

\* ------------------------------------------------------------------ bounds
MaxLen == 4      \* longest raw string given to the sanitizers
MaxNames == 3    \* longest explicit file list

\* ----------------------------------------------------------------- strings
None == <<>>
Some(v) == <<v>>

Lowers ==
    <<"a","b","c","d","e","f","g","h","i","j","k","l","m",
      "n","o","p","q","r","s","t","u","v","w","x","y","z">>
Uppers ==
    <<"A","B","C","D","E","F","G","H","I","J","K","L","M",
      "N","O","P","Q","R","S","T","U","V","W","X","Y","Z">>
Digits == <<"0","1","2","3","4","5","6","7","8","9">>

IndexIn(seq, c) == CHOOSE k \in 1..Len(seq) : seq[k] = c
InSeq(seq, c) == \E k \in 1..Len(seq) : seq[k] = c

\* the printable ASCII characters from code point 32 to 95 and from 97 to
\* 126 (a string of the module cannot hold the grave accent, 96)
PrintableLow ==
    <<" ","!","\"","#","$","%","&","'","(",")","*","+",",","-",".","/",
      "0","1","2","3","4","5","6","7","8","9",":",";","<","=",">","?",
      "@","A","B","C","D","E","F","G","H","I","J","K","L","M","N","O",
      "P","Q","R","S","T","U","V","W","X","Y","Z","[","\\","]","^","_">>
PrintableHigh ==
    <<"a","b","c","d","e","f","g","h","i","j","k","l","m","n","o","p",
      "q","r","s","t","u","v","w","x","y","z","{","|","}","~">>

\* the control characters with their code points
Controls ==
    { <<"\t", 9>>, <<"\n", 10>>, <<"", 11>>, <<"\f", 12>>, <<"\r", 13>>,
      <<"", 28>>, <<"", 29>>, <<"", 30>>, <<"", 31>> }

\* code point of every modelled character
OrdTable ==
    [c \in {PrintableLow[k] : k \in 1..Len(PrintableLow)}
            \cup {PrintableHigh[k] : k \in 1..Len(PrintableHigh)}
            \cup {cc[1] : cc \in Controls} |->
        IF InSeq(PrintableLow, c) THEN 31 + IndexIn(PrintableLow, c)
        ELSE IF InSeq(PrintableHigh, c) THEN 96 + IndexIn(PrintableHigh, c)
        ELSE (CHOOSE cc \in Controls : cc[1] = c)[2]]

\* code point of an ASCII character (no other character is modelled)
ord(c) == OrdTable[c]

\* str.lower(), character by character
lower_char(c) == IF InSeq(Uppers, c) THEN Lowers[IndexIn(Uppers, c)] ELSE c
lower(s) == [k \in 1..Len(s) |-> lower_char(s[k])]

\* str.isdigit() of one ASCII character
isdigit(c) == InSeq(Digits, c)

\* str.rfind(c), 1-based, 0 when c does not occur
rfind(s, c) ==
    IF \E k \in 1..Len(s) : s[k] = c
    THEN CHOOSE k \in 1..Len(s) : s[k] = c /\ \A m \in (k+1)..Len(s) : s[m] # c
    ELSE 0

\* str.strip(chars): drop the characters of chars from both ends
strip(s, chars) ==
    IF \A k \in 1..Len(s) : s[k] \in chars THEN <<>>
    ELSE LET first == CHOOSE k \in 1..Len(s) :
                          s[k] \notin chars /\ \A m \in 1..(k-1) : s[m] \in chars
             last == CHOOSE k \in 1..Len(s) :
                          s[k] \notin chars /\ \A m \in (k+1)..Len(s) : s[m] \in chars
         IN SubSeq(s, first, last)

\* the ASCII characters str.strip() drops: space, tab, line feed, vertical
\* tab, form feed, carriage return and the separators 28 to 31
Whitespace == {" ", "\t", "\n", "", "\f", "\r", "", "", "", ""}

\* str.endswith(suffix)
endswith(s, suffix) ==
    /\ Len(s) >= Len(suffix)
    /\ SubSeq(s, Len(s) - Len(suffix) + 1, Len(s)) = suffix

\* str < str: lexicographic comparison by code point
RECURSIVE str_lt(_, _)
str_lt(a, b) ==
    IF b = <<>> THEN FALSE
    ELSE IF a = <<>> THEN TRUE
    ELSE IF ord(Head(a)) # ord(Head(b)) THEN ord(Head(a)) < ord(Head(b))
    ELSE str_lt(Tail(a), Tail(b))

\* re.sub of a one-class pattern "[cls]+" (negated = FALSE) or "[^cls]+"
\* (negated = TRUE): every maximal run of matching characters becomes repl
re_match(cls, negated, c) == (c \in cls) # negated
RECURSIVE re_sub_from(_, _, _, _, _)
re_sub_from(cls, negated, repl, s, k) ==
    IF k > Len(s) THEN <<>>
    ELSE IF re_match(cls, negated, s[k])
         THEN (IF k > 1 /\ re_match(cls, negated, s[k-1]) THEN <<>> ELSE repl)
              \o re_sub_from(cls, negated, repl, s, k + 1)
         ELSE <<s[k]>> \o re_sub_from(cls, negated, repl, s, k + 1)
re_sub(cls, negated, repl, s) == re_sub_from(cls, negated, repl, s, 1)

SeqRange(seq) == {seq[k] : k \in 1..Len(seq)}
LowerSet == SeqRange(Lowers)
UpperSet == SeqRange(Uppers)
DigitSet == SeqRange(Digits)

\* os.path.basename (posixpath)
basename(p) == SubSeq(p, rfind(p, "/") + 1, Len(p))

\* os.path.splitext (genericpath._splitext): <<root, ext>>; a dot counts
\* only after the last separator and after a character that is not a dot
splitext(p) ==
    LET sepIndex == rfind(p, "/")
        dotIndex == rfind(p, ".")
    IN  IF /\ dotIndex > sepIndex
           /\ \E k \in (sepIndex + 1)..(dotIndex - 1) : p[k] # "."
        THEN <<SubSeq(p, 1, dotIndex - 1), SubSeq(p, dotIndex, Len(p))>>
        ELSE <<p, <<>>>>

\* os.path.isabs and os.path.join of two components (posixpath)
isabs(p) == Len(p) > 0 /\ p[1] = "/"
join(a, b) ==
    IF isabs(b) THEN b
    ELSE IF a = <<>> \/ a[Len(a)] = "/" THEN a \o b
    ELSE a \o <<"/">> \o b

\* -------------------------------------------------------------- sanitizers
FallbackTable == <<"t","a","b","l","e">>
DigitPrefix == <<"t","_">>
FallbackCol == <<"c","o","l">>

\* the digit prefix is decided before the underscores are cleaned up
sanitize_table_name_early_prefix(name) ==
    LET b1 == strip(lower(splitext(basename(name))[1]), Whitespace)
        b2 == re_sub(LowerSet \cup DigitSet \cup {"_"}, TRUE, <<"_">>, b1)
        b3 == IF b2 # <<>> /\ isdigit(b2[1]) THEN DigitPrefix \o b2 ELSE b2
        b4 == strip(re_sub({"_"}, FALSE, <<"_">>, b3), {"_"})
    IN  IF b4 = <<>> THEN FallbackTable ELSE b4

\* the runs of underscores are left as they are
sanitize_table_name_no_collapse(name) ==
    LET b1 == strip(lower(splitext(basename(name))[1]), Whitespace)
        b2 == re_sub(LowerSet \cup DigitSet \cup {"_"}, TRUE, <<"_">>, b1)
        b3 == strip(b2, {"_"})
        b4 == IF b3 = <<>> THEN FallbackTable ELSE b3
    IN  IF isdigit(b4[1]) THEN DigitPrefix \o b4 ELSE b4

sanitize_table_name(name) ==
    LET b1 == strip(lower(splitext(basename(name))[1]), Whitespace)
        b2 == re_sub(LowerSet \cup DigitSet \cup {"_"}, TRUE, <<"_">>, b1)
        b3 == strip(re_sub({"_"}, FALSE, <<"_">>, b2), {"_"})
        b4 == IF b3 = <<>> THEN FallbackTable ELSE b3
    IN  IF isdigit(b4[1]) THEN DigitPrefix \o b4 ELSE b4

\* one element of the list assigned to df.columns
column_name(c) ==
    LET s == lower(strip(re_sub(LowerSet \cup UpperSet \cup DigitSet \cup {"_"},
                                TRUE, <<"_">>, c), {"_"}))
    IN  IF s = <<>> THEN FallbackCol ELSE s

\* the list assigned to df.columns
df_columns(columns) == [k \in 1..Len(columns) |-> column_name(columns[k])]

\* ------------------------------------------------- the run's fixed values
\* a table of the target schema; absent tables have exists = FALSE
NoTable == [exists |-> FALSE, cols |-> <<>>, rows |-> 0, src |-> <<>>]

\* ------------------------------------------------------------ config.py
S_csv == <<".", "c", "s", "v">>
S_xlsx == <<".", "x", "l", "s", "x">>
S_xls == <<".", "x", "l", "s">>

CONFIG_DB_URL == Some(<<"p", "o", "s", "t", "g", "r", "e", "s", "q", "l">>)
CONFIG_CSV_DIR == Some(<<".", "/", "c", "s", "v", "s">>)
CONFIG_CSV_NAMES == None

\* -------------------------------------------------------- resolve_value
resolve_value(cfg_value, cli_value, default) ==
    IF cfg_value # None THEN cfg_value
    ELSE IF cli_value # None THEN cli_value
    ELSE default

\* csv_dir as main resolves it (the --dir argument loses to config.py)
csv_dir == resolve_value(CONFIG_CSV_DIR, None, Some(<<".">>))[1]

\* ------------------------------------------------------ the file system
\* names an entry of csv_dir may have
RelNames ==
    { <<"B", ".", "C", "S", "V">>,
      <<"a", ".", "x", "l", "s">>,
      <<"c", ".", "t", "x", "t">> }
\* the entry of csv_dir that may be a subdirectory or a dangling symbolic
\* link, and the name a file inside that subdirectory may have
SubDirName == <<"B", ".", "C", "S", "V">>
SubFileName == <<"a", ".", "x", "l", "s">>
\* absolute paths that may exist
AbsNames == { <<"/", "a", ".", "c", "s", "v">> }
\* further names a --csv argument may have: the file inside the
\* subdirectory, reached through "."
ArgNames == { <<".", "/">> \o SubDirName \o <<"/">> \o SubFileName }
Names == RelNames \cup AbsNames \cup ArgNames
NameLists == UNION {[1..n -> Names] : n \in 0..MaxNames}

\* str.split("/"): the components of a path, read from position k on with
\* cur the component being read
RECURSIVE split_from(_, _, _)
split_from(p, k, cur) ==
    IF k > Len(p) THEN <<cur>>
    ELSE IF p[k] = "/" THEN <<cur>> \o split_from(p, k + 1, <<>>)
    ELSE split_from(p, k + 1, Append(cur, p[k]))
components(p) == split_from(p, 1, <<>>)

\* A node of the file system is the list of names from the root to it.
\* The working directory of the process:
Cwd == << <<"w", "o", "r", "k">> >>
NoNode == << <<>> >>

\* the node a path names when nothing is looked up on the way
RECURSIVE lexical_node(_, _, _)
lexical_node(node, comps, k) ==
    IF k > Len(comps) THEN node
    ELSE IF comps[k] \in {<<>>, <<".">>} THEN lexical_node(node, comps, k + 1)
    ELSE IF comps[k] = <<".", ".">>
         THEN lexical_node(SubSeq(node, 1, Len(node) - 1), comps, k + 1)
    ELSE lexical_node(Append(node, comps[k]), comps, k + 1)
NodeOf(path) ==
    lexical_node(IF isabs(path) THEN <<>> ELSE Cwd, components(path), 1)

\* the nodes the file system is described on: the root, the working
\* directory, csv_dir, its entries, the file inside the subdirectory and the
\* absolute paths
CsvDirNode == NodeOf(csv_dir)
SubFileNode == Append(Append(CsvDirNode, SubDirName), SubFileName)
FsNodes ==
    {SubSeq(Cwd, 1, n) : n \in 0..Len(Cwd)}
    \cup {CsvDirNode}
    \cup {Append(CsvDirNode, f) : f \in RelNames}
    \cup {SubFileNode}
    \cup {NodeOf(p) : p \in AbsNames}

\* what a node is: "none" (nothing there), "file", "dir", or "dangling" (a
\* symbolic link to nothing: listed by its directory, found by no lookup)
kind(node) == IF node \in DOMAIN fs THEN fs[node] ELSE "none"
IsDirNode(node) == kind(node) = "dir"
IsFileNode(node) == kind(node) = "file"

\* the kernel's path resolution: every component, the empty one after a
\* trailing separator included, is looked up in a directory
RECURSIVE walk(_, _, _)
walk(node, comps, k) ==
    IF k > Len(comps) THEN node
    ELSE IF ~ IsDirNode(node) THEN NoNode
    ELSE IF comps[k] \in {<<>>, <<".">>} THEN walk(node, comps, k + 1)
    ELSE IF comps[k] = <<".", ".">>
         THEN walk(SubSeq(node, 1, Len(node) - 1), comps, k + 1)
    ELSE IF IsDirNode(Append(node, comps[k])) \/ IsFileNode(Append(node, comps[k]))
         THEN walk(Append(node, comps[k]), comps, k + 1)
    ELSE NoNode

\* the node a path resolves to, NoNode when the lookup fails
resolve(path) ==
    IF path = <<>> THEN NoNode
    ELSE walk(IF isabs(path) THEN <<>> ELSE Cwd, components(path), 1)

\* os.path.exists, os.path.isdir
exists(path) == resolve(path) # NoNode
isdir(path) == IsDirNode(resolve(path))

\* the set of names os.listdir(path) returns: whatever the directory holds,
\* dangling links and subdirectories included
listdir(path) ==
    LET d == resolve(path)
    IN  {n[Len(n)] : n \in {m \in DOMAIN fs :
                                /\ Len(m) = Len(d) + 1
                                /\ SubSeq(m, 1, Len(d)) = d
                                /\ fs[m] # "none"}}

\* os.path.isdir(csv_dir) and the names of os.listdir(csv_dir)
isDir == isdir(csv_dir)
dirEntries == IF isDir THEN listdir(csv_dir) ELSE {}

\* the orders os.listdir may return the entries in
Listings(S) ==
    {l \in [1..Cardinality(S) -> S] :
        \A a, b \in 1..Cardinality(S) : a # b => l[a] # l[b]}

\* sorted(list of str): every element goes after the elements not above it
RECURSIVE sorted(_)
sorted(l) ==
    IF l = <<>> THEN <<>>
    ELSE LET r == sorted(SubSeq(l, 1, Len(l) - 1))
             x == l[Len(l)]
             n == Cardinality({k \in 1..Len(r) : ~ str_lt(x, r[k])})
         IN SubSeq(r, 1, n) \o <<x>> \o SubSeq(r, n + 1, Len(r))

\* -------------------------------------------------------- get_csv_files
allowed_exts == {S_csv, S_xlsx, S_xls}

\* str.endswith(tuple of suffixes)
endswith_any(s, suffixes) == \E e \in suffixes : endswith(s, e)

\* a missing entry is skipped and the loop goes on
RECURSIVE explicit_loop_skip_missing(_, _, _, _)
explicit_loop_skip_missing(dir, names, k, files) ==
    IF k > Len(names) THEN [raise |-> "", files |-> files]
    ELSE LET name == names[k]
             path == IF isabs(name) THEN name ELSE join(dir, name)
         IN IF ~ exists(path)
            THEN explicit_loop_skip_missing(dir, names, k + 1, files)
            ELSE explicit_loop_skip_missing(dir, names, k + 1, Append(files, path))

\* each path is put in front of the paths collected so far
RECURSIVE explicit_loop_prepend(_, _, _, _)
explicit_loop_prepend(dir, names, k, files) ==
    IF k > Len(names) THEN [raise |-> "", files |-> files]
    ELSE LET name == names[k]
             path == IF isabs(name) THEN name ELSE join(dir, name)
         IN IF ~ exists(path)
            THEN [raise |-> "FileNotFoundError", files |-> <<>>]
            ELSE explicit_loop_prepend(dir, names, k + 1, <<path>> \o files)

\* the for loop over a non-empty explicit list, from position k on, with the
\* paths collected so far
RECURSIVE explicit_loop(_, _, _, _)
explicit_loop(dir, names, k, files) ==
    IF k > Len(names) THEN [raise |-> "", files |-> files]
    ELSE LET name == names[k]
             path == IF isabs(name) THEN name ELSE join(dir, name)
         IN IF ~ exists(path)
            THEN [raise |-> "FileNotFoundError", files |-> <<>>]
            ELSE explicit_loop(dir, names, k + 1, Append(files, path))

\* the comprehension over os.listdir(csv_dir), listing being its result
RECURSIVE scan_listing(_, _)
scan_listing(dir, listing) ==
    IF listing = <<>> THEN <<>>
    ELSE (IF endswith_any(lower(Head(listing)), allowed_exts)
          THEN <<join(dir, Head(listing))>> ELSE <<>>)
         \o scan_listing(dir, Tail(listing))

\* the scan's result is returned in the order os.listdir gave
get_csv_files_unsorted(dir, names, listing) ==
    IF ~ isDir THEN [raise |-> "NotADirectoryError", files |-> <<>>]
    ELSE IF names # None /\ names[1] # <<>>
         THEN explicit_loop(dir, names[1], 1, <<>>)
    ELSE LET files == scan_listing(dir, listing)
         IN IF files = <<>>
            THEN [raise |-> "FileNotFoundError", files |-> <<>>]
            ELSE [raise |-> "", files |-> files]

\* get_csv_files(csv_dir, csv_names), os.listdir returning listing:
\* [raise |-> the exception raised or "", files |-> the list returned]
get_csv_files(dir, names, listing) ==
    IF ~ isDir THEN [raise |-> "NotADirectoryError", files |-> <<>>]
    ELSE IF names # None /\ names[1] # <<>>
         THEN explicit_loop(dir, names[1], 1, <<>>)
    ELSE LET files == scan_listing(dir, listing)
         IN IF files = <<>>
            THEN [raise |-> "FileNotFoundError", files |-> <<>>]
            ELSE [raise |-> "", files |-> sorted(files)]

\* ------------------------------------------------- load_csv_to_postgres
\* what the parser may return: raw column headers and a number of rows
DataFrames ==
    { [columns |-> << <<"I", "d">>, <<"A", "-", "B">> >>, rows |-> 2],
      [columns |-> << <<"1", "_", "_", "x">> >>, rows |-> 0] }

\* a table that was in the schema before the run
PreTable == [exists |-> TRUE, cols |-> << <<"i", "d">> >>, rows |-> 1, src |-> <<>>]

\* the paths a run can meet and the tables they name
Paths == {join(csv_dir, n) : n \in Names}
TableNames == {sanitize_table_name(p) : p \in Paths}

\* any other extension is read as delimited text
reader_default_csv(ext) ==
    IF ext \in {S_xlsx, S_xls} THEN "read_excel" ELSE "read_csv"

\* the reader chosen by the extension, "ValueError" for any other extension
reader(ext) ==
    IF ext = S_csv THEN "read_csv"
    ELSE IF ext \in {S_xlsx, S_xls} THEN "read_excel"
    ELSE "ValueError"

\* what the collaborators may do during one load: the reader raises an
\* exception nothing catches, the reader raises ImportError (caught by the
\* except clause around both readers), the database fails before or after it
\* has created the table, or nothing fails
Outcomes == {"ok", "read_error", "import_error", "db_error", "db_error_partial"}

\* if_exists="replace": an existing table is dropped and written anew
to_sql_replace(name, df, o) ==
    IF o = "db_error" THEN [raise |-> "SQLAlchemyError", db |-> db]
    ELSE IF o = "db_error_partial"
         THEN [raise |-> "SQLAlchemyError",
               db |-> [db EXCEPT ![name] =
                          [exists |-> TRUE, cols |-> df.columns,
                           rows |-> 0, src |-> df.src]]]
    ELSE [raise |-> "",
          db |-> [db EXCEPT ![name] =
                     [exists |-> TRUE, cols |-> df.columns,
                      rows |-> df.rows, src |-> df.src]]]

\* what may happen during the load of path: a reader returns a frame only
\* from a regular file; given a directory or a dangling link it raises
ReaderOutcomes(path) ==
    IF IsFileNode(resolve(path)) THEN Outcomes
    ELSE {"read_error", "import_error"}

\* df.to_sql(name, schema, if_exists="fail"), df made from src:
\* [raise |-> the exception raised or "", db |-> the schema afterwards]
to_sql(name, df, o) ==
    IF db[name].exists
    THEN [raise |-> IF o \in {"db_error", "db_error_partial"}
                    THEN "SQLAlchemyError" ELSE "ValueError",
          db |-> db]
    ELSE IF o = "db_error" THEN [raise |-> "SQLAlchemyError", db |-> db]
    ELSE IF o = "db_error_partial"
         THEN [raise |-> "SQLAlchemyError",
               db |-> [db EXCEPT ![name] =
                          [exists |-> TRUE, cols |-> df.columns,
                           rows |-> 0, src |-> df.src]]]
    ELSE [raise |-> "",
          db |-> [db EXCEPT ![name] =
                     [exists |-> TRUE, cols |-> df.columns,
                      rows |-> df.rows, src |-> df.src]]]

\* the error is reported and the loop goes on to the next file
LoadFailed_continue(e) ==
    /\ pc' = pc
    /\ exit' = exit
    /\ err' = e
    /\ failedAt' = i
    /\ i' = i + 1
    /\ loaded' = loaded

\* the run ends on the load of csv_files[i]: sys.exit(1) in the except
\* clauses, or an exception nothing catches
LoadFailed(e) ==
    /\ pc' = "aborted"
    /\ exit' = 1
    /\ err' = e
    /\ failedAt' = i
    /\ i' = i
    /\ loaded' = loaded

\* one call of load_csv_to_postgres, from main's for loop
LoadFile ==
    /\ pc = "loop"
    /\ i <= Len(csv_files)
    /\ LET csv_path == csv_files[i]
           table_name == sanitize_table_name(csv_path)
           ext == lower(splitext(csv_path)[2])
       IN  /\ attempted' = Append(attempted, csv_path)
           /\ \E o \in ReaderOutcomes(csv_path) :
                IF reader(ext) = "ValueError"
                THEN LoadFailed("UnsupportedFormat") /\ db' = db
                ELSE IF o = "import_error"
                THEN LoadFailed("ImportError") /\ db' = db
                ELSE IF o = "read_error"
                THEN LoadFailed("ReadError") /\ db' = db
                ELSE \E frame \in DataFrames :
                     LET df == [columns |-> df_columns(frame.columns),
                                rows |-> frame.rows, src |-> csv_path]
                         w == to_sql(table_name, df, o)
                     IN  /\ db' = w.db
                         /\ IF w.raise # ""
                            THEN LoadFailed(w.raise)
                            ELSE /\ loaded' = Append(loaded, csv_path)
                                 /\ i' = i + 1
                                 /\ UNCHANGED <<pc, exit, err, failedAt>>
    /\ UNCHANGED <<fs, args_csv, db0, csv_names, csv_files>>
    /\ UNCHANGED sanvars

\* ----------------------------------------------------------------- main
\* argument parsing and the resolve_value calls, up to create_engine
ResolveConfig ==
    /\ pc = "start"
    /\ \E args_db \in {None, CONFIG_DB_URL} :
         LET db_url == resolve_value(CONFIG_DB_URL, args_db, None)
         IN  IF db_url = None
             THEN /\ pc' = "aborted" /\ exit' = 1 /\ err' = "ConfigurationError"
                  /\ csv_names' = csv_names
             ELSE /\ pc' = "select"
                  /\ csv_names' = resolve_value(CONFIG_CSV_NAMES, args_csv, None)
                  /\ UNCHANGED <<exit, err>>
    /\ UNCHANGED <<fs, args_csv, db, db0, csv_files, i,
                   attempted, loaded, failedAt>>
    /\ UNCHANGED sanvars

\* what os.listdir may return during get_csv_files(csv_dir, names): one of
\* the orders of the entries when the call is reached, nothing to choose
\* when it is not (no directory, or a non-empty explicit list)
ListdirResults(names) ==
    IF isDir /\ ~ (names # None /\ names[1] # <<>>)
    THEN Listings(dirEntries)
    ELSE {<<>>}

\* csv_files = get_csv_files(csv_dir, csv_names); an exception ends the run
SelectFiles ==
    /\ pc = "select"
    /\ \E listing \in ListdirResults(csv_names) :
         LET r == get_csv_files(csv_dir, csv_names, listing)
         IN  IF r.raise # ""
             THEN /\ pc' = "aborted" /\ exit' = 1 /\ err' = r.raise
                  /\ UNCHANGED <<csv_files, i>>
             ELSE /\ csv_files' = r.files
                  /\ i' = 1
                  /\ pc' = "loop"
                  /\ UNCHANGED <<exit, err>>
    /\ UNCHANGED <<fs, args_csv, db, db0, csv_names,
                   attempted, loaded, failedAt>>
    /\ UNCHANGED sanvars

\* the for loop is exhausted: the final message, exit status 0
Finish ==
    /\ pc = "loop"
    /\ i > Len(csv_files)
    /\ pc' = "done"
    /\ exit' = 0
    /\ UNCHANGED <<fs, args_csv, db, db0, csv_names,
                   csv_files, i, attempted, loaded, failedAt, err>>
    /\ UNCHANGED sanvars

SanOff == spc = "off" /\ raw = <<>> /\ tbl = <<>> /\ tbl2 = <<>> /\ col = <<>>

\* what a node may be when the run starts
InitKinds(node) ==
    IF Len(node) <= Len(Cwd) /\ node = SubSeq(Cwd, 1, Len(node)) THEN {"dir"}
    ELSE IF node = CsvDirNode THEN {"none", "file", "dir"}
    ELSE IF node = Append(CsvDirNode, SubDirName)
         THEN {"none", "file", "dir", "dangling"}
    ELSE {"none", "file"}

\* the file systems a run may start in: under a node that is no directory
\* there is nothing
FileSystems ==
    {f \in [FsNodes -> {"none", "file", "dir", "dangling"}] :
        \A n \in FsNodes :
            /\ f[n] \in InitKinds(n)
            /\ (n # <<>> /\ f[SubSeq(n, 1, Len(n) - 1)] # "dir") => f[n] = "none"}

\* the tables a load may meet: those named by a path a reader accepts
LoadableTables ==
    {sanitize_table_name(q) :
        q \in {r \in Paths : reader(lower(splitext(r)[2])) # "ValueError"}}

Init ==
    /\ fs \in FileSystems
    /\ args_csv \in {None} \cup {Some(l) : l \in NameLists}
    /\ db \in {[t \in TableNames |-> IF t \in S THEN PreTable ELSE NoTable] :
                   S \in SUBSET LoadableTables}
    /\ db0 = db
    /\ pc = "start"
    /\ csv_names = None
    /\ csv_files = <<>>
    /\ i = 0
    /\ attempted = <<>>
    /\ loaded = <<>>
    /\ failedAt = 0
    /\ err = ""
    /\ exit = -1
    /\ SanOff

Next == ResolveConfig \/ SelectFiles \/ LoadFile \/ Finish
Spec == Init /\ [][Next]_vars

\* --------------------------------------- specification of the sanitizers
\* characters the raw strings are built from: a lowercase and an uppercase
\* letter, a digit, the underscore, whitespace, the dot, the path separator
\* and a character outside every allowed class
Alphabet == {"a", "B", "1", "_", " ", ".", "/", "-"}
RawStrings == UNION {[1..n -> Alphabet] : n \in 0..MaxLen}

RunOff ==
    /\ fs = [n \in FsNodes |-> "none"] /\ args_csv = None
    /\ db = <<>> /\ db0 = <<>> /\ pc = "off" /\ csv_names = None
    /\ csv_files = <<>> /\ i = 0 /\ attempted = <<>> /\ loaded = <<>>
    /\ failedAt = 0 /\ err = "" /\ exit = -1

SanInit ==
    /\ RunOff
    /\ spc = "in"
    /\ raw \in RawStrings
    /\ tbl = <<>> /\ tbl2 = <<>> /\ col = <<>>

\* table_name = sanitize_table_name(csv_path)
SanitizeTable ==
    /\ spc = "in"
    /\ tbl' = sanitize_table_name(raw)
    /\ spc' = "t1"
    /\ UNCHANGED <<raw, tbl2, col>>
    /\ UNCHANGED runvars

\* the sanitizer applied to its own result
SanitizeAgain ==
    /\ spc = "t1"
    /\ tbl2' = sanitize_table_name(tbl)
    /\ spc' = "t2"
    /\ UNCHANGED <<raw, tbl, col>>
    /\ UNCHANGED runvars

\* the same raw string taken as a column header
SanitizeColumn ==
    /\ spc = "t2"
    /\ col' = column_name(raw)
    /\ spc' = "done"
    /\ UNCHANGED <<raw, tbl, tbl2>>
    /\ UNCHANGED runvars

SanNext == SanitizeTable \/ SanitizeAgain \/ SanitizeColumn
SpecSan == SanInit /\ [][SanNext]_vars

\* ------------------------------------------------- claims on the sanitizers
IdentChars == LowerSet \cup DigitSet \cup {"_"}

\* a sanitized identifier as the data model defines it
IsSanitized(s) ==
    /\ s # <<>>
    /\ \A k \in 1..Len(s) : s[k] \in IdentChars
    /\ ~ isdigit(s[1])
    /\ s[1] # "_" /\ s[Len(s)] # "_"
    /\ \A k \in 1..(Len(s) - 1) : ~ (s[k] = "_" /\ s[k+1] = "_")

\* C4: for every input string, sanitize_table_name returns a non-empty string
\* of lowercase letters, digits and underscores that does not start with a
\* digit, has no two consecutive underscores and no underscore at either end.
C4_TableNameSanitized == (spc # "in") => IsSanitized(tbl)

\* C4 witness: an input made only of invalid characters, dots and separators
\* got the fallback, and an input whose cleaned form starts with a digit got
\* the prefix.
C4_Witness ==
    /\ spc = "t1"
    /\ \/ raw = <<"-", "/", ".", "-">> /\ tbl = FallbackTable
       \/ raw = <<" ", "_", "1", "B">> /\ tbl = <<"t", "_", "1", "b">>

\* C5: every column name made from a raw header is a sanitized identifier
\* (non-empty, lowercase letters, digits and underscores, no leading digit,
\* no consecutive and no boundary underscores).  The column expression
\* neither collapses underscores nor prefixes a leading digit: header "1"
\* gives "1" and "a__b" stays "a__b".
C5_ColumnNameSanitized == (spc = "done") => IsSanitized(col)

\* C6: sanitize_table_name is idempotent: applied to its own result it
\* returns that result.
C6_Idempotent == (spc \in {"t2", "done"}) => tbl2 = tbl

\* C6 witness: the second application ran on a result that carries the digit
\* prefix, and on one that is the fallback.
C6_Witness ==
    /\ spc = "t2"
    /\ \/ tbl = <<"t", "_", "1">> /\ raw = <<"1", ".", "a">>
       \/ tbl = FallbackTable /\ raw = <<".", "/", ".">>

\* ------------------------------------------------------ claims on the run
\* the path get_csv_files makes of one explicit name
PathOf(name) == IF isabs(name) THEN name ELSE join(csv_dir, name)
ExplicitNonEmpty == csv_names # None /\ csv_names[1] # <<>>
AfterSelect == pc \in {"loop", "done", "aborted"}
SelectionErrors == {"NotADirectoryError", "FileNotFoundError"}
HasSupportedExt(f) ==
    \E e \in {S_csv, S_xlsx, S_xls} :
        /\ Len(f) >= Len(e)
        /\ \A k \in 1..Len(e) : lower_char(f[Len(f) - Len(e) + k]) = e[k]
UnsupportedExt(path) == lower(splitext(path)[2]) \notin {S_csv, S_xlsx, S_xls}
IsPrefix(a, b) == Len(a) <= Len(b) /\ a = SubSeq(b, 1, Len(a))

\* C1: with an explicit list that is present but empty, on an existing
\* directory, file selection returns the empty sequence: nothing is loaded,
\* the directory is not scanned and no 'no files found' error is raised.
C1_EmptyListSelectsNothing ==
    (AfterSelect /\ isDir /\ csv_names = Some(<<>>)) =>
        /\ csv_files = <<>>
        /\ attempted = <<>>
        /\ err # "FileNotFoundError"

\* C2: once the load of a file has failed the run is Aborted with exit
\* status 1, the files load_csv_to_postgres was called with are exactly the
\* list up to the failing one, and every table the run changed was written
\* from one of those files.
C2_HardStop ==
    (failedAt # 0) =>
        /\ pc = "aborted"
        /\ exit = 1
        /\ failedAt <= Len(csv_files)
        /\ attempted = SubSeq(csv_files, 1, failedAt)
        /\ \A t \in DOMAIN db :
              db[t] # db0[t] => \E k \in 1..failedAt : db[t].src = csv_files[k]

\* C2 witness: the second file of three failed in the database and the third
\* was left alone.
C2_Witness ==
    /\ failedAt = 2
    /\ Len(csv_files) = 3
    /\ err = "SQLAlchemyError"
    /\ pc = "aborted"

\* C3: a load that starts while its table already exists ends the run
\* Aborted with exit status 1 and leaves every table, the existing one
\* included, exactly as it was.
C3_ExistingTableUntouched ==
    [][ ( /\ pc = "loop"
          /\ i <= Len(csv_files)
          /\ db[sanitize_table_name(csv_files[i])].exists )
        => ( /\ pc' = "aborted"
             /\ exit' = 1
             /\ err' # ""
             /\ db' = db ) ]_vars

\* C3 witness: a load was refused because the table existed before the run,
\* and the table is still the one that was there.
C3_Witness ==
    /\ pc = "aborted"
    /\ err = "ValueError"
    /\ failedAt >= 1
    /\ db0[sanitize_table_name(csv_files[failedAt])] = PreTable
    /\ db[sanitize_table_name(csv_files[failedAt])] = PreTable

\* C7: when file selection fails (no directory, an empty scan, or a missing
\* entry of a non-empty explicit list, wherever it stands in the list) the
\* run ends with exit status 1 before any load: load_csv_to_postgres was
\* never called and no table changed.
C7_SelectionFailureStopsRun ==
    LET mustFail ==
            \/ ~ isDir
            \/ ExplicitNonEmpty
                /\ \E k \in 1..Len(csv_names[1]) : ~ exists(PathOf(csv_names[1][k]))
            \/ csv_names = None /\ ~ \E f \in dirEntries : HasSupportedExt(f)
    IN  (AfterSelect /\ (mustFail \/ err \in SelectionErrors)) =>
            /\ pc = "aborted"
            /\ exit = 1
            /\ err \in SelectionErrors
            /\ csv_files = <<>>
            /\ attempted = <<>>
            /\ loaded = <<>>
            /\ db = db0

\* C7 witness: an explicit list whose first entry exists and whose second
\* entry is missing ended the run.
C7_Witness ==
    /\ pc = "aborted"
    /\ err = "FileNotFoundError"
    /\ ExplicitNonEmpty
    /\ Len(csv_names[1]) >= 2
    /\ exists(PathOf(csv_names[1][1]))
    /\ ~ exists(PathOf(csv_names[1][2]))

\* C8: with no explicit list, on an existing directory, get_csv_files
\* returns exactly the entries whose name ends, whatever the case, in .csv,
\* .xlsx or .xls, each joined to the directory, in ascending order of the
\* full path; it raises the file-not-found error exactly when no entry
\* matches.
C8_ScanExactAndSorted ==
    (AfterSelect /\ isDir /\ csv_names = None) =>
        LET expected == {join(csv_dir, f) : f \in {g \in dirEntries : HasSupportedExt(g)}}
        IN  /\ (err = "FileNotFoundError") <=> (expected = {})
            /\ {csv_files[k] : k \in 1..Len(csv_files)} = expected
            /\ Len(csv_files) = Cardinality(expected)
            /\ \A k \in 1..(Len(csv_files) - 1) : str_lt(csv_files[k], csv_files[k+1])

\* C8 witness: a scan of a directory holding two supported files and one
\* unsupported file returned the two.
C8_Witness ==
    /\ pc = "loop"
    /\ csv_names = None
    /\ Cardinality(dirEntries) = 3
    /\ Len(csv_files) = 2

\* C9: a non-empty explicit list is selected in the given order, duplicates
\* kept; the files whose load completed are always a prefix of the selected
\* list; the run is Done, and only then has exit status 0, only when that
\* prefix is the whole list.
C9_LoadedInSelectedOrder ==
    /\ IsPrefix(loaded, csv_files)
    /\ (pc = "done") => (loaded = csv_files /\ exit = 0)
    /\ (exit = 0) => (pc = "done")
    /\ (AfterSelect /\ ExplicitNonEmpty /\ err \notin SelectionErrors) =>
           csv_files = [k \in 1..Len(csv_names[1]) |-> PathOf(csv_names[1][k])]

\* C9 witness: an explicit list given against the sorted order was loaded
\* whole, in the order given.
C9_Witness ==
    /\ pc = "done"
    /\ ExplicitNonEmpty
    /\ Len(loaded) = 2
    /\ str_lt(loaded[2], loaded[1])

\* C10: an existing file with an unsupported extension in a non-empty
\* explicit list passes selection; the load loop never gets past it; the
\* unsupported-format error is raised at that file, after every earlier file
\* was loaded, and ends the run with exit status 1, no table written from
\* that file and no later file attempted.
C10_UnsupportedFailsAtLoad ==
    /\ ( /\ AfterSelect /\ isDir /\ ExplicitNonEmpty
         /\ \A k \in 1..Len(csv_names[1]) : exists(PathOf(csv_names[1][k])) )
       => ( /\ err \notin SelectionErrors
            /\ csv_files = [k \in 1..Len(csv_names[1]) |-> PathOf(csv_names[1][k])] )
    /\ \A k \in 1..Len(loaded) : ~ UnsupportedExt(loaded[k])
    /\ \A k \in 1..Len(attempted) :
          UnsupportedExt(attempted[k]) => (err = "UnsupportedFormat" /\ failedAt = k)
    /\ (err = "UnsupportedFormat") =>
          /\ pc = "aborted"
          /\ exit = 1
          /\ failedAt \in 1..Len(csv_files)
          /\ UnsupportedExt(csv_files[failedAt])
          /\ loaded = SubSeq(csv_files, 1, failedAt - 1)
          /\ attempted = SubSeq(csv_files, 1, failedAt)
          /\ \A t \in DOMAIN db : db[t] = db0[t] \/ db[t].src # csv_files[failedAt]

\* C10 witness: an explicit list of three files with the unsupported one in
\* the middle: the first was loaded, the second raised, the third was not
\* attempted.
C10_Witness ==
    /\ err = "UnsupportedFormat"
    /\ ExplicitNonEmpty
    /\ Len(csv_files) = 3
    /\ failedAt = 2
    /\ Len(loaded) = 1

====
